---- MODULE Spec2Model ----
(***************************************************************************)
(* A model of the lab-report table interpreter of src/main.py: the request *)
(* handler get_lab_tests (table cleaning, column classification, the       *)
(* positional fallback, row extraction) and the helpers                     *)
(* parse_reference_range and is_out_of_range.                               *)
(*                                                                         *)
(* A text is a sequence of one-character strings, so that trimming,         *)
(* splitting, searching and the three regular expressions of the source     *)
(* are computed on the characters.                                          *)
(***************************************************************************)
EXTENDS Integers, Sequences, FiniteSets, TLC

(***************************************************************************)
(* Characters and Python string methods                                     *)
(***************************************************************************)
Digits == {"0", "1", "2", "3", "4", "5", "6", "7", "8", "9"}

Whitespace == {" "}

UpperAlpha == <<"A", "B", "C", "D", "E", "F", "G", "H", "I", "J", "K", "L", "M",
                "N", "O", "P", "Q", "R", "S", "T", "U", "V", "W", "X", "Y", "Z">>

LowerAlpha == <<"a", "b", "c", "d", "e", "f", "g", "h", "i", "j", "k", "l", "m",
                "n", "o", "p", "q", "r", "s", "t", "u", "v", "w", "x", "y", "z">>

Range(f) == {f[i] : i \in DOMAIN f}

\* [a-zA-Z/] of the value pattern
AlphaOrSlash == Range(UpperAlpha) \cup Range(LowerAlpha) \cup {"/"}

\* \d of the regular expressions
IsDigit(c) == c \in Digits

\* [\d.] of the regular expressions
DigitOrDot == Digits \cup {"."}

IsDigitOrDot(c) == c \in DigitOrDot

\* [\s-] of the range pattern
SpaceOrHyphen == Whitespace \cup {"-"}

DigitVal(c) == CHOOSE v \in 0..9 : <<"0", "1", "2", "3", "4", "5", "6", "7", "8", "9">>[v + 1] = c

LowerChar(c) ==
    IF c \in Range(UpperAlpha)
    THEN LowerAlpha[CHOOSE i \in DOMAIN UpperAlpha : UpperAlpha[i] = c]
    ELSE c

\* str.lower()
Lower(s) == [i \in 1..Len(s) |-> LowerChar(s[i])]

\* str.strip()
Strip(s) ==
    IF \A i \in 1..Len(s) : s[i] \in Whitespace
    THEN <<>>
    ELSE LET a == CHOOSE i \in 1..Len(s) :
                      s[i] \notin Whitespace /\ \A j \in 1..(i - 1) : s[j] \in Whitespace
             b == CHOOSE i \in 1..Len(s) :
                      s[i] \notin Whitespace /\ \A j \in (i + 1)..Len(s) : s[j] \in Whitespace
         IN  SubSeq(s, a, b)

\* sub in s
Contains(s, sub) ==
    \E i \in 1..(Len(s) - Len(sub) + 1) : SubSeq(s, i, i + Len(sub) - 1) = sub

\* the length of the longest prefix of s whose characters are all in chars
RunLen(s, chars) ==
    IF \A i \in 1..Len(s) : s[i] \in chars
    THEN Len(s)
    ELSE (CHOOSE i \in 1..Len(s) : s[i] \notin chars /\ \A j \in 1..(i - 1) : s[j] \in chars) - 1

\* the length of the longest prefix of s without a character of chars
RunLenNot(s, chars) ==
    IF \A i \in 1..Len(s) : s[i] \notin chars
    THEN Len(s)
    ELSE (CHOOSE i \in 1..Len(s) : s[i] \in chars /\ \A j \in 1..(i - 1) : s[j] \notin chars) - 1

\* str.split() without arguments: the maximal runs of non-whitespace
RECURSIVE Split(_)
Split(s) ==
    LET t == SubSeq(s, RunLen(s, Whitespace) + 1, Len(s))
        n == RunLenNot(t, Whitespace)
    IN  IF t = <<>> THEN <<>>
        ELSE <<SubSeq(t, 1, n)>> \o Split(SubSeq(t, n + 1, Len(t)))

\* ' '.join(parts)
RECURSIVE JoinSpace(_)
JoinSpace(parts) ==
    IF parts = <<>> THEN <<>>
    ELSE IF Len(parts) = 1 THEN parts[1]
    ELSE parts[1] \o <<" ">> \o JoinSpace(Tail(parts))

(***************************************************************************)
(* float(): an optional sign, then digits with at most one decimal point    *)
(* and at least one digit, or "nan", "inf", "infinity" in any case;         *)
(* surrounding whitespace is ignored.  Exponents and digit-group            *)
(* underscores, which float() also accepts, occur in no text of this model. *)
(* A number is kept as its digits, so that no width limits the comparison.  *)
(***************************************************************************)
IsDecimal(u) ==
    /\ u # <<>>
    /\ \A i \in 1..Len(u) : IsDigitOrDot(u[i])
    /\ Cardinality({i \in 1..Len(u) : u[i] = "."}) <= 1
    /\ \E i \in 1..Len(u) : IsDigit(u[i])

Unsigned(t) == IF t # <<>> /\ t[1] \in {"+", "-"} THEN Tail(t) ELSE t

T_nan == <<"n", "a", "n">>

T_inf == <<"i", "n", "f">>

T_infinity == <<"i", "n", "f", "i", "n", "i", "t", "y">>

\* does float(s) return (TRUE) or raise ValueError (FALSE)
FloatOk(s) ==
    LET u == Unsigned(Strip(s))
    IN  IsDecimal(u) \/ Lower(u) \in {T_nan, T_inf, T_infinity}

StripLeadingZeros(d) == SubSeq(d, RunLen(d, {"0"}) + 1, Len(d))

Reverse(s) == [i \in 1..Len(s) |-> s[Len(s) + 1 - i]]

StripTrailingZeros(d) == Reverse(StripLeadingZeros(Reverse(d)))

\* the value of float(s), for a text with FloatOk(s)
Float(s) ==
    LET t == Strip(s)
        u == Unsigned(t)
        neg == t # <<>> /\ t[1] = "-"
        dot == IF \E i \in 1..Len(u) : u[i] = "."
               THEN CHOOSE i \in 1..Len(u) : u[i] = "."
               ELSE Len(u) + 1
    IN  IF Lower(u) = T_nan THEN [kind |-> "nan", neg |-> neg, ip |-> <<>>, fp |-> <<>>]
        ELSE IF Lower(u) \in {T_inf, T_infinity}
        THEN [kind |-> "inf", neg |-> neg, ip |-> <<>>, fp |-> <<>>]
        ELSE [kind |-> "num", neg |-> neg,
              ip |-> StripLeadingZeros(SubSeq(u, 1, dot - 1)),
              fp |-> StripTrailingZeros(SubSeq(u, dot + 1, Len(u)))]

\* digit sequences of equal length, compared as numbers
LexLess(a, b) ==
    \E i \in 1..Len(a) :
        /\ DigitVal(a[i]) < DigitVal(b[i])
        /\ \A j \in 1..(i - 1) : a[j] = b[j]

PadRight(d, n) == [i \in 1..n |-> IF i <= Len(d) THEN d[i] ELSE "0"]

Max(a, b) == IF a >= b THEN a ELSE b

MagLess(x, y) ==
    \/ Len(x.ip) < Len(y.ip)
    \/ Len(x.ip) = Len(y.ip) /\ LexLess(x.ip, y.ip)
    \/ /\ x.ip = y.ip
       /\ LET n == Max(Len(x.fp), Len(y.fp))
          IN  LexLess(PadRight(x.fp, n), PadRight(y.fp, n))

IsZero(x) == x.kind = "num" /\ x.ip = <<>> /\ x.fp = <<>>

\* x < y on floats: every comparison with nan is false
FloatLess(x, y) ==
    /\ x.kind # "nan"
    /\ y.kind # "nan"
    /\ LET xn == x.neg /\ ~IsZero(x)
           yn == y.neg /\ ~IsZero(y)
       IN  IF x.kind = "inf" THEN xn /\ ~(y.kind = "inf" /\ yn)
           ELSE IF y.kind = "inf" THEN ~yn
           ELSE IF xn /\ ~yn THEN TRUE
           ELSE IF ~xn /\ yn THEN FALSE
           ELSE IF xn THEN MagLess(y, x)
           ELSE MagLess(x, y)

(***************************************************************************)
(* The regular expressions of the source, matched with re.match: anchored   *)
(* at the start of the text.                                                *)
(***************************************************************************)
\* are the characters a..b of s all in chars
AllIn(s, a, b, chars) == \A i \in a..b : s[i] \in chars

\* re.match(r'^\d*\.?\d+\s*[a-zA-Z/]*$', s)
MatchValue(s) ==
    \E i \in 0..Len(s), d \in {0, 1}, j \in 1..Len(s), k \in 0..Len(s) :
        /\ i + d + j + k <= Len(s)
        /\ AllIn(s, 1, i, Digits)
        /\ d = 1 => s[i + 1] = "."
        /\ AllIn(s, i + d + 1, i + d + j, Digits)
        /\ AllIn(s, i + d + j + 1, i + d + j + k, Whitespace)
        /\ AllIn(s, i + d + j + k + 1, Len(s), AlphaOrSlash)

\* re.match(r'[\d.]+[\s-]+[\d.]+', s)
MatchRange(s) ==
    \E i \in 1..Len(s), j \in 1..Len(s) :
        /\ i + j + 1 <= Len(s)
        /\ AllIn(s, 1, i, DigitOrDot)
        /\ AllIn(s, i + 1, i + j, SpaceOrHyphen)
        /\ s[i + j + 1] \in DigitOrDot

(***************************************************************************)
(* parse_reference_range.  In r"([\d.]+)\s*-\s*([\d.]+)" each repetition is  *)
(* greedy and no shorter repetition can lead to a match (the character that  *)
(* ends a run never matches what follows it in the pattern), so each group   *)
(* and each \s* is the maximal run at its place.  The result is the pair of  *)
(* floats, (None, None) when the pattern does not match, or the ValueError   *)
(* that float() raises on a group such as "1.2.3".                           *)
(***************************************************************************)
parse_reference_range(ref_range) ==
    LET n1 == RunLen(ref_range, DigitOrDot)
        r1 == SubSeq(ref_range, n1 + 1, Len(ref_range))
        r2 == SubSeq(r1, RunLen(r1, Whitespace) + 1, Len(r1))
        r3 == Tail(r2)
        r4 == SubSeq(r3, RunLen(r3, Whitespace) + 1, Len(r3))
        n2 == RunLen(r4, DigitOrDot)
        g1 == SubSeq(ref_range, 1, n1)
        g2 == SubSeq(r4, 1, n2)
    IN  IF n1 = 0 \/ r2 = <<>> \/ r2[1] # "-" \/ n2 = 0
        THEN [tag |-> "none"]
        ELSE IF ~FloatOk(g1) \/ ~FloatOk(g2)
        THEN [tag |-> "ValueError"]
        ELSE [tag |-> "pair", low |-> Float(g1), high |-> Float(g2)]

\* The mutant of is_out_of_range without its try/except: the exception leaves it.
is_out_of_range_no_try(value, ref_range) ==
    LET r == parse_reference_range(ref_range)
    IN  IF r.tag = "ValueError" \/ ~FloatOk(value) THEN "Raise"
        ELSE IF r.tag = "pair"
        THEN IF FloatLess(Float(value), r.low) \/ FloatLess(r.high, Float(value))
             THEN "True" ELSE "False"
        ELSE "None"

\* The mutant of is_out_of_range that compares with <= and >=.
is_out_of_range_inclusive(value, ref_range) ==
    LET r == parse_reference_range(ref_range)
    IN  IF r.tag = "ValueError" \/ ~FloatOk(value) THEN "None"
        ELSE IF r.tag = "pair"
        THEN IF ~FloatLess(r.low, Float(value)) \/ ~FloatLess(Float(value), r.high)
             THEN "True" ELSE "False"
        ELSE "None"

\* is_out_of_range: "True", "False" or "None"; an exception of either parse is
\* caught and gives "None".
is_out_of_range(value, ref_range) ==
    LET r == parse_reference_range(ref_range)
    IN  IF r.tag = "ValueError" THEN "None"
        ELSE IF ~FloatOk(value) THEN "None"
        ELSE IF r.tag = "pair"
        THEN IF FloatLess(Float(value), r.low) \/ FloatLess(r.high, Float(value))
             THEN "True" ELSE "False"
        ELSE "None"

(***************************************************************************)
(* Cells, tables and the words the source looks for                         *)
(***************************************************************************)
\* A cell is a text or one of the two missing values of a DataFrame: the None
\* the table extraction gives an empty cell, and the NaN that replace() writes.
\* Neither is a text: each is one symbol that is no character.
PyNone == <<"<None>">>

NaN == <<"<nan>">>

\* pandas isna()
IsNa(cell) == cell \in {PyNone, NaN}

W_None == <<"N", "o", "n", "e">>

W_none == <<"n", "o", "n", "e">>

W_test == <<"t", "e", "s", "t">>

W_parameter == <<"p", "a", "r", "a", "m", "e", "t", "e", "r">>

W_investigation == <<"i", "n", "v", "e", "s", "t", "i", "g", "a", "t", "i", "o", "n">>

W_rbc == <<"r", "b", "c">>

W_wbc == <<"w", "b", "c">>

W_hb == <<"h", "b">>

W_platelet == <<"p", "l", "a", "t", "e", "l", "e", "t">>

W_g_dl == <<"g", "/", "d", "l">>

W_mg_dl == <<"m", "g", "/", "d", "l">>

W_iu_l == <<"i", "u", "/", "l">>

W_mmol_l == <<"m", "m", "o", "l", "/", "l">>

W_cumm == <<"/", "c", "u", "m", "m">>

W_percent == <<"%">>

W_fl == <<"f", "l">>

W_pg == <<"p", "g">>

W_name == <<"n", "a", "m", "e">>

W_value == <<"v", "a", "l", "u", "e">>

W_result == <<"r", "e", "s", "u", "l", "t">>

W_range == <<"r", "a", "n", "g", "e">>

W_reference == <<"r", "e", "f", "e", "r", "e", "n", "c", "e">>

W_unit == <<"u", "n", "i", "t">>

\* str(cell)
Str(cell) == IF cell = PyNone THEN W_None ELSE IF cell = NaN THEN T_nan ELSE cell

\* the words of the test-name rule
NameWords == {W_test, W_parameter, W_investigation, W_rbc, W_wbc, W_hb, W_platelet}

\* the words of the unit rule
UnitWords == {W_g_dl, W_mg_dl, W_iu_l, W_mmol_l, W_cumm, W_percent, W_fl, W_pg}

\* the keys of col_map, in the order of the positional fallback
Roles == <<"test_name", "test_value", "bio_reference_range", "test_unit">>

NoRole == "none"

Returned == {"return_69", "return_224", "return_229"}


(***************************************************************************)
(* Table cleaning.  A DataFrame is its column labels, as the texts          *)
(* str(col), and its rows of cells.  The labels of one DataFrame are        *)
(* distinct and none is the empty text.                                     *)
(***************************************************************************)
NCols(df) == Len(df.columns)

NRows(df) == Len(df.rows)

\* df.replace(token, np.nan)
Replace(df, token) ==
    [columns |-> df.columns,
     rows |-> [r \in 1..NRows(df) |->
                  [c \in 1..NCols(df) |->
                      IF df.rows[r][c] = token THEN NaN ELSE df.rows[r][c]]]]

\* df.dropna(how='all')
DropNaRows(df) ==
    [columns |-> df.columns,
     rows |-> SelectSeq(df.rows, LAMBDA row : \E c \in 1..Len(row) : ~IsNa(row[c]))]

\* df.dropna(axis=1, how='all')
DropNaCols(df) ==
    LET keep == SelectSeq([c \in 1..NCols(df) |-> c],
                          LAMBDA c : \E r \in 1..NRows(df) : ~IsNa(df.rows[r][c]))
    IN  [columns |-> [k \in 1..Len(keep) |-> df.columns[keep[k]]],
         rows |-> [r \in 1..NRows(df) |-> [k \in 1..Len(keep) |-> df.rows[r][keep[k]]]]]

\* The mutant of CleanTable that drops before it replaces the placeholders.
CleanTable_drop_first(df) ==
    Replace(Replace(DropNaCols(DropNaRows(df)), W_None), <<>>)

\* the four statements that clean a table
CleanTable(df) ==
    DropNaCols(DropNaRows(Replace(Replace(df, W_None), <<>>)))

\* df.shape[0] < 2 or df.shape[1] < 2
TooSmall(df) == NRows(df) < 2 \/ NCols(df) < 2

(***************************************************************************)
(* Column classification                                                    *)
(***************************************************************************)
\* df[col].dropna().astype(str).tolist()
SampleValues(df, c) ==
    LET cells == SelectSeq([r \in 1..NRows(df) |-> df.rows[r][c]], LAMBDA x : ~IsNa(x))
    IN  [i \in 1..Len(cells) |-> Str(cells[i])]

\* The role the if/elif chain selects for a column, or NoRole: the content rules
\* in their order, then the rules on the label.
RuleRole(df, c) ==
    LET col_lower == Lower(df.columns[c])
        sample_values == SampleValues(df, c)
    IN  IF sample_values = <<>> THEN NoRole
        ELSE IF \E i \in DOMAIN sample_values, word \in NameWords :
                    Contains(Lower(sample_values[i]), word)
        THEN "test_name"
        ELSE IF \E i \in DOMAIN sample_values : MatchValue(Strip(sample_values[i]))
        THEN "test_value"
        ELSE IF \E i \in DOMAIN sample_values : MatchRange(Strip(sample_values[i]))
        THEN "bio_reference_range"
        ELSE IF \E i \in DOMAIN sample_values, unit \in UnitWords :
                    Contains(Lower(sample_values[i]), unit)
        THEN "test_unit"
        ELSE IF Contains(col_lower, W_test)
                /\ (Contains(col_lower, W_name) \/ Contains(col_lower, W_parameter))
        THEN "test_name"
        ELSE IF Contains(col_lower, W_value) \/ Contains(col_lower, W_result)
        THEN "test_value"
        ELSE IF Contains(col_lower, W_range) \/ Contains(col_lower, W_reference)
        THEN "bio_reference_range"
        ELSE IF Contains(col_lower, W_unit)
        THEN "test_unit"
        ELSE NoRole

\* col_map = {}
EmptyMap == [role \in {} |-> <<>>]

\* The mutant of NewColMap that keeps the mapping of the table before.
NewColMap_keep(old) == old

\* col_map = {}, executed for every table that is not too small
NewColMap(old) == EmptyMap

\* The mutant of SetRole in which the first column that claims a role keeps it.
SetRole_first_wins(cm, role, col) ==
    IF role \in DOMAIN cm THEN cm ELSE (role :> col) @@ cm

\* col_map[role] = col
SetRole(cm, role, col) == (role :> col) @@ cm

\* one iteration of: for col in df.columns
ClassifyColumn(cm, df, c) ==
    LET role == RuleRole(df, c)
    IN  IF role = NoRole THEN cm ELSE SetRole(cm, role, df.columns[c])

\* The fallback that skips the columns already held: an unmapped role takes the
\* leftmost column no role holds yet. The code has PositionalFallback instead.
RECURSIVE FallbackNextUnused(_, _, _)
FallbackNextUnused(cm, columns, k) ==
    IF k > Len(Roles) THEN cm
    ELSE LET free == {i \in 1..Len(columns) : \A r \in DOMAIN cm : cm[r] # columns[i]}
         IN  IF Roles[k] \in DOMAIN cm \/ free = {}
             THEN FallbackNextUnused(cm, columns, k + 1)
             ELSE FallbackNextUnused(
                      SetRole(cm, Roles[k], columns[CHOOSE i \in free : \A j \in free : i <= j]),
                      columns, k + 1)

PositionalFallback_next_unused(cm, columns) == FallbackNextUnused(cm, columns, 1)

\* the four ifs after the mapping check: an unmapped role takes the column at
\* its own position, when the table has that many columns
PositionalFallback(cm, columns) ==
    LET m1 == IF "test_name" \notin DOMAIN cm /\ Len(columns) > 0
              THEN SetRole(cm, "test_name", columns[1]) ELSE cm
        m2 == IF "test_value" \notin DOMAIN m1 /\ Len(columns) > 1
              THEN SetRole(m1, "test_value", columns[2]) ELSE m1
        m3 == IF "bio_reference_range" \notin DOMAIN m2 /\ Len(columns) > 2
              THEN SetRole(m2, "bio_reference_range", columns[3]) ELSE m2
        m4 == IF "test_unit" \notin DOMAIN m3 /\ Len(columns) > 3
              THEN SetRole(m3, "test_unit", columns[4]) ELSE m3
    IN  m4

(***************************************************************************)
(* Row extraction                                                           *)
(***************************************************************************)
\* col_map.get(role, '')
MapGet(cm, role) == IF role \in DOMAIN cm THEN cm[role] ELSE <<>>

\* row.get(label, ''), for row r of df
RowGet(df, r, label) ==
    IF \E c \in 1..NCols(df) : df.columns[c] = label
    THEN df.rows[r][CHOOSE c \in 1..NCols(df) : df.columns[c] = label]
    ELSE <<>>

\* str(row.get(col_map.get(role, ''), '')).strip()
Field(df, cm, r, role) == Strip(Str(RowGet(df, r, MapGet(cm, role))))

\* The mutant of IsBlank that tests for the empty text alone.
IsBlank_empty_only(text) == text = <<>>

\* not text or text.lower() in ['none', 'nan', '']
IsBlank(text) == text = <<>> \/ Lower(text) \in {W_none, T_nan, <<>>}

\* out_of_range = is_out_of_range(...); if out_of_range is None: out_of_range = False
OutOfRangeFlag(value, ref_range) ==
    LET o == is_out_of_range(value, ref_range)
    IN  [raised |-> o = "Raise", flag |-> o = "True"]

\* The body of the row loop: the records row r adds to lab_tests, none or one.
\* An exception inside the try leaves the row without a record.
ProcessRow(df, cm, r) ==
    LET test_name == Field(df, cm, r, "test_name")
        test_value == Field(df, cm, r, "test_value")
        bio_reference_range == Field(df, cm, r, "bio_reference_range")
        test_unit == Field(df, cm, r, "test_unit")
        parts == Split(test_value)
        split == test_unit = <<>> /\ Contains(test_value, <<"/">>) /\ Len(parts) > 1
        value2 == IF split THEN parts[1] ELSE test_value
        unit2 == IF split THEN JoinSpace(Tail(parts)) ELSE test_unit
        o == OutOfRangeFlag(value2, bio_reference_range)
    IN  IF IsBlank(test_name) \/ IsBlank(test_value) \/ o.raised
        THEN <<>>
        ELSE <<[test_name |-> test_name,
                test_value |-> value2,
                bio_reference_range |-> bio_reference_range,
                test_unit |-> unit2,
                lab_test_out_of_range |-> o.flag]>>

\* The mutant of SuccessResponse that reports failure when nothing was extracted.
SuccessResponse_nonempty(tests) == [is_success |-> tests # <<>>, data |-> tests]

\* LabTestResponse(is_success=True, data=lab_tests)
SuccessResponse(tests) == [is_success |-> TRUE, data |-> tests]

\* LabTestResponse(is_success=False, data=[])
FailureResponse == [is_success |-> FALSE, data |-> <<>>]

(***************************************************************************)
(* The tables the extraction may return.  A column of the pool is a label   *)
(* and three cells; a generated table is a sequence of distinct columns of  *)
(* the pool, so its labels are distinct.                                    *)
(***************************************************************************)
\* label "0": "Hb", "wbc", None
ColName ==
    [label |-> <<"0">>,
     cells |-> <<<<"H", "b">>,
               <<"w", "b", "c">>,
               PyNone>>]

\* label "test name": "rbc test", " ", "hb"
ColNameHdr ==
    [label |-> <<"t", "e", "s", "t", " ", "n", "a", "m", "e">>,
     cells |-> <<<<"r", "b", "c", " ", "t", "e", "s", "t">>,
               <<" ">>,
               <<"h", "b">>>>]

\* label "1": "9", "12.5 g/dL", None
ColValue ==
    [label |-> <<"1">>,
     cells |-> <<<<"9">>,
               <<"1", "2", ".", "5", " ", "g", "/", "d", "L">>,
               PyNone>>]

\* label "result": "high", "", "nan /l"
ColValueHdr ==
    [label |-> <<"r", "e", "s", "u", "l", "t">>,
     cells |-> <<<<"h", "i", "g", "h">>,
               <<>>,
               <<"n", "a", "n", " ", "/", "l">>>>]

\* label "2": "4 - 11", "13-17", "None"
ColRange ==
    [label |-> <<"2">>,
     cells |-> <<<<"4", " ", "-", " ", "1", "1">>,
               <<"1", "3", "-", "1", "7">>,
               <<"N", "o", "n", "e">>>>]

\* label "ref range": "neg", "low", "pos"
ColRangeHdr ==
    [label |-> <<"r", "e", "f", " ", "r", "a", "n", "g", "e">>,
     cells |-> <<<<"n", "e", "g">>,
               <<"l", "o", "w">>,
               <<"p", "o", "s">>>>]

\* label "unit": "g/dl", None, " "
ColUnit ==
    [label |-> <<"u", "n", "i", "t">>,
     cells |-> <<<<"g", "/", "d", "l">>,
               PyNone,
               <<" ">>>>]

\* label "misc": "abc", "", "x y"
ColOther ==
    [label |-> <<"m", "i", "s", "c">>,
     cells |-> <<<<"a", "b", "c">>,
               <<>>,
               <<"x", " ", "y">>>>]

\* label "3": None, "None", ""
ColEmpty ==
    [label |-> <<"3">>,
     cells |-> <<PyNone,
               <<"N", "o", "n", "e">>,
               <<>>>>]

ColumnPool ==
    {ColName, ColNameHdr, ColValue, ColValueHdr, ColRange, ColRangeHdr, ColUnit,
     ColOther, ColEmpty}

\* the most columns of a generated table
MaxCols == 4

\* the most tables of a document
MaxTables == 3

\* table.df of a table with the given columns
MkTable(cols) ==
    [columns |-> [c \in 1..Len(cols) |-> cols[c].label],
     rows |-> [r \in 1..Len(cols[1].cells) |-> [c \in 1..Len(cols) |-> cols[c].cells[r]]]]

GenTables ==
    UNION {{MkTable(cols) : cols \in {f \in [1..n -> ColumnPool] :
                                        \A i, j \in 1..n : i # j => f[i] # f[j]}}
           : n \in 1..MaxCols}

\* the documents of one generated table
OneTableDocs == {<<t>> : t \in GenTables}

\* the tables of the documents of several tables
DocTables ==
    {MkTable(<<ColName, ColValue, ColRange>>),
     MkTable(<<ColValue, ColRange>>),
     MkTable(<<ColOther, ColValue, ColRange>>),
     MkTable(<<ColName, ColOther>>),
     MkTable(<<ColName, ColEmpty>>)}

Docs == UNION {[1..n -> DocTables] : n \in 0..MaxTables}

(***************************************************************************)
(* The handler get_lab_tests as a state machine                             *)
(***************************************************************************)
VARIABLES
    pc,          \* where the handler is: "start", "table", "classify", "rows", or the line of its return
    tables,      \* the tables extract_tables returned
    table_idx,   \* the table of the loop, from 1
    df,          \* the cleaned DataFrame of that table
    col_idx,     \* the column of the classification loop, from 1
    col_map,     \* role -> column label
    row_idx,     \* the row of the row loop, from 1
    lab_tests,   \* the records collected so far
    response,    \* the LabTestResponse returned
    fn_arg,      \* the argument of a helper applied on its own
    fn_res       \* its result

vars == <<pc, tables, table_idx, df, col_idx, col_map, row_idx, lab_tests, response,
          fn_arg, fn_res>>

NoDf == [columns |-> <<>>, rows |-> <<>>]

HandlerInit ==
    /\ pc = "start"
    /\ tables = <<>>
    /\ table_idx = 0
    /\ df = NoDf
    /\ col_idx = 0
    /\ col_map = EmptyMap
    /\ row_idx = 0
    /\ lab_tests = <<>>
    /\ response = FailureResponse

Init == HandlerInit /\ fn_arg = <<>> /\ fn_res = <<>>

\* cv2.imread returns None: the image cannot be decoded
ImreadFails ==
    /\ pc = "start"
    /\ pc' = "return_69"
    /\ response' = FailureResponse
    /\ UNCHANGED <<tables, table_idx, df, col_idx, col_map, row_idx, lab_tests, fn_arg, fn_res>>

\* A call before the table loop (reading the upload, the preprocessing, the OCR
\* engine, extract_tables) raises: the handler's outer except returns the failure.
PipelineRaises ==
    /\ pc = "start"
    /\ pc' = "return_229"
    /\ response' = FailureResponse
    /\ UNCHANGED <<tables, table_idx, df, col_idx, col_map, row_idx, lab_tests, fn_arg, fn_res>>

\* the image is decoded and extract_tables returns one of the documents
ExtractTables(documents) ==
    /\ pc = "start"
    /\ tables' \in documents
    /\ lab_tests' = <<>>
    /\ table_idx' = 1
    /\ pc' = "table"
    /\ UNCHANGED <<df, col_idx, col_map, row_idx, response, fn_arg, fn_res>>

\* the head of the table loop: clean the table and skip it when too small
StartTable ==
    /\ pc = "table"
    /\ table_idx <= Len(tables)
    /\ df' = CleanTable(tables[table_idx])
    /\ IF TooSmall(df')
       THEN /\ table_idx' = table_idx + 1
            /\ UNCHANGED <<pc, col_idx, col_map>>
       ELSE /\ col_map' = NewColMap(col_map)
            /\ col_idx' = 1
            /\ pc' = "classify"
            /\ UNCHANGED table_idx
    /\ UNCHANGED <<tables, row_idx, lab_tests, response, fn_arg, fn_res>>

\* one iteration of the classification loop
ClassifyNext ==
    /\ pc = "classify"
    /\ col_idx <= NCols(df)
    /\ col_map' = ClassifyColumn(col_map, df, col_idx)
    /\ col_idx' = col_idx + 1
    /\ UNCHANGED <<pc, tables, table_idx, df, row_idx, lab_tests, response, fn_arg, fn_res>>

\* after the loop: skip the table when fewer than 2 roles are mapped, else
\* apply the positional fallback and enter the row loop
CheckMapping ==
    /\ pc = "classify"
    /\ col_idx > NCols(df)
    /\ IF Cardinality(DOMAIN col_map) < 2
       THEN /\ table_idx' = table_idx + 1
            /\ pc' = "table"
            /\ UNCHANGED <<col_map, row_idx>>
       ELSE /\ col_map' = PositionalFallback(col_map, df.columns)
            /\ row_idx' = 1
            /\ pc' = "rows"
            /\ UNCHANGED table_idx
    /\ UNCHANGED <<tables, df, col_idx, lab_tests, response, fn_arg, fn_res>>

\* one iteration of the row loop
ExtractRow ==
    /\ pc = "rows"
    /\ row_idx <= NRows(df)
    /\ lab_tests' = lab_tests \o ProcessRow(df, col_map, row_idx)
    /\ row_idx' = row_idx + 1
    /\ UNCHANGED <<pc, tables, table_idx, df, col_idx, col_map, response, fn_arg, fn_res>>

\* the row loop ends: on to the next table
EndRows ==
    /\ pc = "rows"
    /\ row_idx > NRows(df)
    /\ table_idx' = table_idx + 1
    /\ pc' = "table"
    /\ UNCHANGED <<tables, df, col_idx, col_map, row_idx, lab_tests, response, fn_arg, fn_res>>

\* the table loop ends: the handler returns what it collected
ReturnTests ==
    /\ pc = "table"
    /\ table_idx > Len(tables)
    /\ response' = SuccessResponse(lab_tests)
    /\ pc' = "return_224"
    /\ UNCHANGED <<tables, table_idx, df, col_idx, col_map, row_idx, lab_tests, fn_arg, fn_res>>

ProcessTables ==
    \/ StartTable
    \/ ClassifyNext
    \/ CheckMapping
    \/ ExtractRow
    \/ EndRows
    \/ ReturnTests

\* a document of up to MaxTables tables
Next ==
    \/ ImreadFails
    \/ PipelineRaises
    \/ ExtractTables(Docs)
    \/ ProcessTables

Spec == Init /\ [][Next]_vars

\* a document of one generated table
NextTable ==
    \/ ImreadFails
    \/ PipelineRaises
    \/ ExtractTables(OneTableDocs)
    \/ ProcessTables

SpecTable == Init /\ [][NextTable]_vars

(***************************************************************************)
(* The helpers applied on their own                                         *)
(***************************************************************************)
\* the longest reference-range text
MaxRangeLen == 5

RangeChars == {"1", "5", ".", "-", " ", "x"}

Texts(chars, n) == UNION {[1..k -> chars] : k \in 0..n}

\* value texts: 0, 3, 9, 5., 1.5, -3, nan, "", 3x, " 3 "
ValueTexts ==
    {<<"0">>, <<"3">>, <<"9">>, <<"5", ".">>, <<"1", ".", "5">>, <<"-", "3">>, T_nan,
     <<>>, <<"3", "x">>, <<" ", "3", " ">>}

RangeInit ==
    /\ HandlerInit
    /\ fn_arg \in [value : ValueTexts, ref_range : Texts(RangeChars, MaxRangeLen)]
    /\ fn_res = <<>>

\* the call site of is_out_of_range in the row loop, on any two texts
ApplyOutOfRange ==
    /\ pc = "start"
    /\ pc' = "called"
    /\ fn_res' = OutOfRangeFlag(fn_arg.value, fn_arg.ref_range)
    /\ UNCHANGED <<tables, table_idx, df, col_idx, col_map, row_idx, lab_tests, response, fn_arg>>

SpecRange == RangeInit /\ [][ApplyOutOfRange]_vars

\* the most rows and columns of a raw table that is cleaned on its own
MaxRawRows == 2

MaxRawCols == 2

RawCells == {PyNone, W_None, <<>>, <<"x">>}

\* str(col) of the integer labels 0, 1, 2, ... of a new DataFrame
IntLabel(c) == <<<<"0", "1", "2", "3", "4", "5", "6", "7", "8", "9">>[c]>>

\* table.df of a raw table with the given rows of nc cells
RawTable(nc, rows) == [columns |-> [c \in 1..nc |-> IntLabel(c)], rows |-> rows]

CleanInit ==
    /\ HandlerInit
    /\ \E nr \in 1..MaxRawRows, nc \in 1..MaxRawCols :
          \E rows \in [1..nr -> [1..nc -> RawCells]] : fn_arg = RawTable(nc, rows)
    /\ fn_res = NoDf

\* the cleaning statements of the table loop, on any raw table
ApplyClean ==
    /\ pc = "start"
    /\ pc' = "called"
    /\ fn_res' = CleanTable(fn_arg)
    /\ UNCHANGED <<tables, table_idx, df, col_idx, col_map, row_idx, lab_tests, response, fn_arg>>

SpecClean == CleanInit /\ [][ApplyClean]_vars

(***************************************************************************)
(* The claims                                                               *)
(***************************************************************************)
RoleSet == Range(Roles)

\* the role each column before column n selects
RuleRoles(n) == [c \in 1..(n - 1) |-> RuleRole(df, c)]

\* the columns whose rule selects the role
RuleColumns(selected, role) == {c \in DOMAIN selected : selected[c] = role}

Least(S) == CHOOSE x \in S : \A y \in S : x <= y

Greatest(S) == CHOOSE x \in S : \A y \in S : x >= y

\* C1: for every table that is not rejected, the final column mapping (after the
\* rules and the positional fallback) is one-to-one: no column is held by two
\* roles, no role holds two columns, and it has at most 4 entries.
C1_MappingOneToOne ==
    pc = "rows" =>
        /\ \A r1, r2 \in DOMAIN col_map : r1 # r2 => col_map[r1] # col_map[r2]
        /\ DOMAIN col_map \subseteq RoleSet
        /\ Cardinality(DOMAIN col_map) <= 4

EndOfRulePass == pc = "classify" /\ col_idx > NCols(df)

\* C3 as stated: with at least 2 roles mapped, the unmapped roles, in the order
\* TestName, TestValue, ReferenceRange, Unit, each take the leftmost column that
\* no role holds yet; the roles of the rule pass are left unchanged.
C3_NextUnusedColumn ==
    [][EndOfRulePass /\ pc' = "rows"
          => col_map' = PositionalFallback_next_unused(col_map, df.columns)]_vars

\* the step of the row loop that adds a record
RecordStep == pc = "rows" /\ row_idx <= NRows(df) /\ Len(lab_tests') = Len(lab_tests) + 1

\* the cell of the row under the unit column, '' when the role is unmapped
UnitCell(r) == RowGet(df, r, MapGet(col_map, "test_unit"))

\* C4: for a row that gives a record and whose unit is empty (the Unit role is
\* unmapped, or the row's unit cell holds no value or only blanks), a value text
\* that contains "/" and has more than one token is split into the first token
\* (test_value) and the other tokens joined by one space (test_unit); in every
\* other case value and unit are the trimmed cell texts.
C4_FallbackSplit ==
    [][RecordStep =>
          LET rec == lab_tests'[Len(lab_tests')]
              text == Field(df, col_map, row_idx, "test_value")
              unit_empty == \/ "test_unit" \notin DOMAIN col_map
                            \/ IsNa(UnitCell(row_idx))
                            \/ Strip(UnitCell(row_idx)) = <<>>
          IN  IF unit_empty /\ Contains(text, <<"/">>) /\ Len(Split(text)) > 1
              THEN /\ rec.test_value = Split(text)[1]
                   /\ rec.test_unit = JoinSpace(Tail(Split(text)))
              ELSE /\ rec.test_value = text
                   /\ ~IsNa(UnitCell(row_idx)) => rec.test_unit = Strip(UnitCell(row_idx))]_vars

\* a number as a reference range writes it: digits with at most one decimal
\* point, no sign, no exponent
IsNumber(t) == IsDecimal(t)

\* The range text starts with <number> - <number>, the numbers being the whole
\* runs of digits and points at their places, and the value text is a number
\* below the first or above the second.
OutsideWrittenRange(value, ref) ==
    \E i \in 1..Len(ref), j \in 1..Len(ref), k \in 1..Len(ref), l \in 1..Len(ref) :
        /\ i <= j /\ j < k /\ k < l
        /\ AllIn(ref, 1, i, DigitOrDot)
        /\ ref[i + 1] \notin DigitOrDot
        /\ AllIn(ref, i + 1, j, Whitespace)
        /\ ref[j + 1] = "-"
        /\ AllIn(ref, j + 2, k, Whitespace)
        /\ AllIn(ref, k + 1, l, DigitOrDot)
        /\ l < Len(ref) => ref[l + 1] \notin DigitOrDot
        /\ IsNumber(SubSeq(ref, 1, i))
        /\ IsNumber(SubSeq(ref, k + 1, l))
        /\ FloatOk(value)
        /\ \/ FloatLess(Float(value), Float(SubSeq(ref, 1, i)))
           \/ FloatLess(Float(SubSeq(ref, k + 1, l)), Float(value))

\* C5: for every value text and range text the flag of the record is true exactly
\* when the range starts with <number> - <number>, the value is a number and
\* value < low or value > high; it is false in every other case, and no failure
\* to parse leaves the call.
C5_OutOfRangeFlag ==
    pc = "called" =>
        /\ ~fn_res.raised
        /\ fn_res.flag <=> OutsideWrittenRange(fn_arg.value, fn_arg.ref_range)

\* the value 9 is flagged against a range that parses
C5_Witness ==
    /\ pc = "called"
    /\ fn_arg.value = <<"9">>
    /\ parse_reference_range(fn_arg.ref_range).tag = "pair"
    /\ fn_res.flag

\* a cell without a value, before or after the placeholders are replaced
NoValue(cell) == IsNa(cell) \/ cell \in {W_None, <<>>}

\* the rows rs and the columns cs of t, in their order
SubTable(t, rs, cs) ==
    [columns |-> [k \in 1..Len(cs) |-> t.columns[cs[k]]],
     rows |-> [r \in 1..Len(rs) |-> [k \in 1..Len(cs) |-> t.rows[rs[r]][cs[k]]]]]

Increasing(seq) == \A i, j \in 1..Len(seq) : i < j => seq[i] < seq[j]

\* C6: cleaning a table is idempotent; after it no row and no column is without
\* a value, and the rows and columns that remain are in the order of the input.
C6_CleanIdempotent ==
    pc = "called" =>
        /\ CleanTable(fn_res) = fn_res
        /\ \A r \in 1..NRows(fn_res) : \E c \in 1..NCols(fn_res) : ~NoValue(fn_res.rows[r][c])
        /\ \A c \in 1..NCols(fn_res) : \E r \in 1..NRows(fn_res) : ~NoValue(fn_res.rows[r][c])
        /\ NRows(fn_res) <= NRows(fn_arg)
        /\ NCols(fn_res) <= NCols(fn_arg)
        /\ \E rs \in UNION {[1..n -> 1..NRows(fn_arg)] : n \in 0..NRows(fn_arg)},
              cs \in UNION {[1..n -> 1..NCols(fn_arg)] : n \in 0..NCols(fn_arg)} :
              /\ Increasing(rs)
              /\ Increasing(cs)
              /\ fn_res = SubTable(Replace(Replace(fn_arg, W_None), <<>>), rs, cs)

\* a table that loses a row and a column and keeps a placeholder cell as NaN
C6_Witness ==
    /\ pc = "called"
    /\ 0 < NRows(fn_res) /\ NRows(fn_res) < NRows(fn_arg)
    /\ 0 < NCols(fn_res) /\ NCols(fn_res) < NCols(fn_arg)

\* C7 as stated: success is false only if the image could not be decoded; when it
\* is false the record list is empty.
C7_FailureOnlyOnDecode ==
    pc \in Returned =>
        /\ ~response.is_success => pc = "return_69"
        /\ ~response.is_success => response.data = <<>>

\* C7 as amended: success is false only if the image could not be decoded or an
\* exception reached the handler's outer except; every run that ends the table
\* loop, also with no table or with every table or row rejected, returns success
\* with the records extracted; when success is false the record list is empty.
C7_FailureOnlyOnDecodeOrException ==
    pc \in Returned =>
        /\ ~response.is_success <=> pc \in {"return_69", "return_229"}
        /\ pc = "return_224" => response.is_success /\ response.data = lab_tests
        /\ ~response.is_success => response.data = <<>>

\* a run over tables that are all rejected returns success without records
C7_Witness ==
    /\ pc = "return_224"
    /\ Len(tables) > 0
    /\ response.is_success
    /\ response.data = <<>>

\* the mapping of the rule pass over all columns of a cleaned table
RECURSIVE RulePass(_, _)
RulePass(d, n) == IF n = 0 THEN EmptyMap ELSE ClassifyColumn(RulePass(d, n - 1), d, n)

RECURSIVE RowRecords(_, _, _)
RowRecords(d, cm, n) ==
    IF n = 0 THEN <<>> ELSE RowRecords(d, cm, n - 1) \o ProcessRow(d, cm, n)

\* is the table rejected: too small, or fewer than 2 roles mapped
Rejected(t) ==
    LET d == CleanTable(t)
    IN  TooSmall(d) \/ Cardinality(DOMAIN RulePass(d, NCols(d))) < 2

\* the records of a table processed on its own
TableRecords(t) ==
    LET d == CleanTable(t)
    IN  IF Rejected(t) THEN <<>>
        ELSE RowRecords(d, PositionalFallback(RulePass(d, NCols(d)), d.columns), NRows(d))

RECURSIVE Concat(_)
Concat(seqs) == IF seqs = <<>> THEN <<>> ELSE seqs[1] \o Concat(Tail(seqs))

\* C8: a rejected table adds no record, and the records returned are, in the
\* order of the tables, the records each table gives on its own.
C8_TablesIndependent ==
    pc = "return_224" =>
        response.data = Concat([i \in 1..Len(tables) |-> TableRecords(tables[i])])

\* a document with a rejected table and two tables that give records
C8_Witness ==
    /\ pc = "return_224"
    /\ \E i \in 1..Len(tables) : Rejected(tables[i])
    /\ \E i, j \in 1..Len(tables) :
          i < j /\ TableRecords(tables[i]) # <<>> /\ TableRecords(tables[j]) # <<>>

\* a text that is not empty and does not lower-case to "none" or "nan"
Present(text) == text # <<>> /\ Lower(text) \notin {W_none, T_nan}

\* does row r have a name and a value
RowComplete(r) ==
    /\ Present(Field(df, col_map, r, "test_name"))
    /\ Present(Field(df, col_map, r, "test_value"))

\* C9: the records of a table are, one for one and in row order, the rows whose
\* name and value are present; a skipped row does not stop the later rows.
C9_RecordsAreCompleteRows ==
    pc = "rows" =>
        LET rows == SelectSeq([r \in 1..(row_idx - 1) |-> r], RowComplete)
        IN  /\ Len(lab_tests) = Len(rows)
            /\ \A k \in 1..Len(rows) :
                  /\ lab_tests[k].test_name = Field(df, col_map, rows[k], "test_name")
                  /\ lab_tests[k].bio_reference_range =
                         Field(df, col_map, rows[k], "bio_reference_range")
                  /\ lab_tests[k].test_value \in
                         {Field(df, col_map, rows[k], "test_value"),
                          Split(Field(df, col_map, rows[k], "test_value"))[1]}

\* the row loop is over; a row was skipped and a later row gave a record whose
\* value no float() accepts
C9_Witness ==
    /\ pc = "rows"
    /\ row_idx > NRows(df)
    /\ \E r1, r2 \in 1..NRows(df) :
          /\ r1 < r2
          /\ ~RowComplete(r1)
          /\ RowComplete(r2)
          /\ ~FloatOk(Field(df, col_map, r2, "test_value"))
    /\ lab_tests # <<>>

\* C10 as stated: in every record the stored name and the stored value, after
\* any split, are non-empty and do not lower-case to "none" or "nan".
C10_StoredNameValuePresent ==
    \A k \in 1..Len(lab_tests) :
        Present(lab_tests[k].test_name) /\ Present(lab_tests[k].test_value)

\* C10 as amended: in every record the stored name and the trimmed value text of
\* its row are non-empty and do not lower-case to "none" or "nan"; the stored
\* value is non-empty and is that text or, after the split, its first token,
\* which may itself be "none" or "nan".
C10_NameAndCellValuePresent ==
    [][RecordStep =>
          LET rec == lab_tests'[Len(lab_tests')]
              text == Field(df, col_map, row_idx, "test_value")
          IN  /\ Present(rec.test_name)
              /\ Present(text)
              /\ rec.test_value # <<>>
              /\ \/ rec.test_value = text
                 \/ /\ Contains(text, <<"/">>)
                    /\ Len(Split(text)) > 1
                    /\ rec.test_value = Split(text)[1]]_vars

\* a record whose stored value is the first token "nan" of a split text
C10_Witness ==
    \E k \in 1..Len(lab_tests) :
        /\ Lower(lab_tests[k].test_value) = T_nan
        /\ lab_tests[k].test_unit # <<>>

====
